---- MODULE Spec2Model ----
(***************************************************************************)
(* Model of MDAnalysis.coordinates.GSD.GSDReader: a stateful cursor over a *)
(* GSD (HOOMD-blue) frame container.  The container on disk is read-only   *)
(* and is drawn once; the reader is constructed over it and then driven    *)
(* by read_frame / read_next_timestep / open_trajectory / close / _reopen. *)
(*                                                                         *)
(* Floating point values (box lengths, tilt factors, angles in degrees)    *)
(* are fixed-point integers counting 1/Unit, so that a tilt factor of 1 is *)
(* Unit and 45 degrees is 45 * Unit.  The arithmetic is the exact real     *)
(* arithmetic of the formulas; rounding of the binary floats is not        *)
(* modelled.                                                               *)
(***************************************************************************)
EXTENDS Integers, Sequences, FiniteSets, TLC

VARIABLES
    os_name,     \* os.name of the platform the module is imported on
    disk,        \* the frames stored in the file `filename` (never written)
    phase,       \* "new": no reader yet, "ready": constructed, "failed"
    _file,       \* self._file: "none", or the handle it holds, "open" or "closed"
    leaked,      \* handles this reader opened, dropped from self._file
                 \* without closing them
    _frame,      \* self._frame: the cursor
    n_atoms,     \* self.n_atoms: the reference particle count
    ts,          \* self.ts: the one Timestep reused by every read
    result,      \* outcome of the last operation, as seen by the caller
    run,         \* history: the frames decoded by the constructor and the
                 \* uninterrupted read_next_timestep calls that followed it
    peer         \* a second GSDReader instance over the same filename: its
                 \* own phase, _file, leaked, _frame, n_atoms, ts and result

vars == <<os_name, disk, phase, _file, leaked, _frame, n_atoms, ts, result,
          run, peer>>

----------------------------------------------------------------------------
(* Bounds of the model. *)

MaxFrames == 3      \* a container holds 0..MaxFrames frames
MaxLeaked == 1      \* at most this many handles are dropped unclosed
MaxPairFrames == 2  \* frames of a container two readers are opened over

(* Fixed-point denominator of every float of the model. *)
Unit == 100

(* Particle counts a frame may report. *)
AtomCounts == {1, 2}

----------------------------------------------------------------------------
(* The frame container (gsd.hoomd trajectory) as the reader consumes it.   *)

(* The frame stored at physical position i (0-based) with N particles and  *)
(* tilt factors t.  Step counter, edge lengths and the particle arrays are *)
(* distinct for distinct positions, so a field identifies its frame.       *)
MkFrame(i, N, t) ==
    [ step     |-> 1000 * (i + 1),
      box      |-> << (10 + i) * Unit, (20 + i) * Unit, (30 + i) * Unit,
                      t[1], t[2], t[3] >>,
      N        |-> N,
      position |-> [k \in 1..N |-> 100 * (i + 1) + k],
      velocity |-> [k \in 1..N |-> -(100 * (i + 1) + k)],
      image    |-> [k \in 1..N |-> i + 1] ]

(* The k-th triple (xy, xz, yz) of the cube {-1, 0, 1}^3, k counted modulo *)
(* its 27 triples.                                                         *)
TiltAt(k) ==
    << ((k % 3) - 1) * Unit,
       (((k \div 3) % 3) - 1) * Unit,
       (((k \div 9) % 3) - 1) * Unit >>

(* A container: 0..MaxFrames frames, each with its own particle count.     *)
(* Frame 0 carries one of nine triples of the cube and the following       *)
(* frames walk the cube from there, so that the frames of one container    *)
(* differ in every field and the containers of three frames together hold  *)
(* every triple of the cube.                                               *)
Containers ==
    UNION { { [i \in 1..n |-> MkFrame(i - 1, c[i], TiltAt(3 * o + i - 1))] :
                c \in [1..n -> AtomCounts], o \in 0..8 } :
            n \in 0..MaxFrames }

(* len(self._file) *)
n_frames == Len(disk)

(* self._file[frame]: Python sequence indexing as gsd.hoomd implements it, *)
(* a negative key counts from the end, anything outside raises IndexError. *)
InRange(frame) == frame >= -n_frames /\ frame < n_frames

Physical(frame) == IF frame < 0 THEN frame + n_frames ELSE frame

GetItem(frame) == disk[Physical(frame) + 1]

----------------------------------------------------------------------------
(* Box geometry: lines 126-142 of _read_frame.                             *)

RECURSIVE GCD(_, _)
GCD(a, b) == IF b = 0 THEN a ELSE GCD(b, a % b)

Sign(x) == IF x > 0 THEN 1 ELSE IF x < 0 THEN -1 ELSE 0

(* 1 + dimensions[3]**2, the radicand of the norm of the second edge.      *)
Radicand12(d) == Unit * Unit + d[4] * d[4]

(* 1 + dimensions[4]**2 + dimensions[5]**2, the radicand of the third.     *)
Radicand13(d) == Unit * Unit + d[5] * d[5] + d[6] * d[6]

(* The real number num / sqrt(rad), kept exactly as its sign and its       *)
(* square p/q in lowest terms.                                             *)
Quotient(num, rad) ==
    LET g == GCD(num * num, rad)
    IN  [ sgn |-> Sign(num), p |-> (num * num) \div g, q |-> rad \div g ]

(* a1a2 = dimensions[3] / sqrt(1 + dimensions[3]**2) *)
A1A2_unit_numerator(d) == Quotient(Unit, Radicand12(d))

A1A2(d) == Quotient(d[4], Radicand12(d))

(* a1a3 = dimensions[4] / sqrt(1 + dimensions[4]**2 + dimensions[5]**2) *)
A1A3(d) == Quotient(d[5], Radicand13(d))

(* a2a3 = (dimensions[3]*dimensions[4] + dimensions[5]) /                  *)
(*        (sqrt(1 + d[3]**2) * sqrt(1 + d[4]**2 + d[5]**2))                *)
A2A3(d) == Quotient(d[4] * d[5] + d[6] * Unit, Radicand12(d) * Radicand13(d))

(* np.arccos(c) * 180.0 / np.pi for the cosines the tilt factors of Tilts  *)
(* and their neighbours produce, in hundredths of a degree.                *)
CentiDegrees(c) ==
    LET acute == CASE c.p = 0              -> 9000
                   [] c.p = 1 /\ c.q = 6   -> 6591
                   [] c.p = 1 /\ c.q = 4   -> 6000
                   [] c.p = 1 /\ c.q = 3   -> 5474
                   [] c.p = 1 /\ c.q = 2   -> 4500
                   [] c.p = 2 /\ c.q = 3   -> 3526
                   [] c.p = 3 /\ c.q = 4   -> 3000
                   [] c.p = 1 /\ c.q = 1   -> 0
    IN  IF c.sgn < 0 THEN 18000 - acute ELSE acute

ArcCosDegrees(c) == (CentiDegrees(c) * Unit) \div 100

(* self.ts.tilt_factors = self.ts.dimensions[3:6].copy() *)
CaptureTilt(t) == [t EXCEPT !.tilt_factors = SubSeq(t.dimensions, 4, 6)]

(* Lines 128-142: the three cosines are computed from the raw descriptor,  *)
(* converted to degrees, then written over slots 3, 4, 5 in that order.    *)
ConvertAngles_gamma_first(t) ==
    LET d    == t.dimensions
        a1a2 == ArcCosDegrees(A1A2(d))
        a1a3 == ArcCosDegrees(A1A3(d))
        a2a3 == ArcCosDegrees(A2A3(d))
    IN  [t EXCEPT !.dimensions = [d EXCEPT ![4] = a1a2, ![5] = a1a3, ![6] = a2a3]]

ConvertAngles(t) ==
    LET d    == t.dimensions
        a1a2 == ArcCosDegrees(A1A2(d))     \* gamma
        a1a3 == ArcCosDegrees(A1A3(d))     \* beta
        a2a3 == ArcCosDegrees(A2A3(d))     \* alpha
        d3   == [d  EXCEPT ![4] = a2a3]
        d4   == [d3 EXCEPT ![5] = a1a3]
        d5   == [d4 EXCEPT ![6] = a1a2]
    IN  [t EXCEPT !.dimensions = d5]

DecodeBox_convert_first(t) == CaptureTilt(ConvertAngles(t))

DecodeBox(t) == ConvertAngles(CaptureTilt(t))

----------------------------------------------------------------------------
(* Values of the reader before anything was assigned. *)

NoTimestep ==
    [ frame |-> -1, step |-> -1, dimensions |-> <<>>, tilt_factors |-> <<>>,
      positions |-> <<>>, velocities |-> <<>>, images |-> <<>> ]

NoResult == [ op |-> "none", arg |-> 0, kind |-> "none", info |-> <<>> ]

NoRun == [ active |-> FALSE, seq |-> <<>>, calls |-> 0, ended |-> FALSE ]

Outcome(op, arg, kind, info) ==
    [ op |-> op, arg |-> arg, kind |-> kind, info |-> info ]

NoReader ==
    [ phase |-> "new", _file |-> "none", leaked |-> 0, _frame |-> -1,
      n_atoms |-> -1, ts |-> NoTimestep, result |-> NoResult ]

----------------------------------------------------------------------------
(* GSDReader._read_frame, lines 105-159. *)

(* except IndexError: raise IOError *)
RaisedWhenOutOfRange_untranslated == "IndexError"

RaisedWhenOutOfRange == "IOError"

(* self._frame = frame *)
SetCursor_keep(cur, frame) == cur

SetCursor(cur, frame) == frame

(* self.ts.frame = frame; self.ts.data['step'] = myframe.configuration.step *)
SetFrame(t, frame, myframe) ==
    [t EXCEPT !.frame = frame, !.step = myframe.step]

(* self.ts.dimensions = myframe.configuration.box *)
SetBox(t, myframe) == [t EXCEPT !.dimensions = myframe.box]

(* n_atoms_now = frame_positions.shape[0] *)
AtomsNow(myframe) == Len(myframe.position)

(* The arguments of the ValueError message: (frame, n_atoms_now, n_atoms) *)
MismatchInfo_expected_first(frame, myframe, nat) == <<frame, nat, AtomsNow(myframe)>>

MismatchInfo(frame, myframe, nat) == <<frame, AtomsNow(myframe), nat>>

(* self.ts.positions = frame_positions *)
SetPositions_skip(t, myframe) == t

SetPositions(t, myframe) == [t EXCEPT !.positions = myframe.position]

(* self.ts.images = ...image; self.ts.velocities = ...velocity *)
SetImagesVelocities_images_only(t, myframe) ==
    [t EXCEPT !.images = myframe.image]

SetImagesVelocities(t, myframe) ==
    [t EXCEPT !.images = myframe.image, !.velocities = myframe.velocity]

(* Lines 145-157: the count check guards the three particle arrays. *)
SetParticles_before_check(t, myframe, nat) ==
    LET t1 == SetImagesVelocities(SetPositions(t, myframe), myframe)
    IN  IF AtomsNow(myframe) # nat
        THEN [ ts |-> t1, kind |-> "ValueError" ]
        ELSE [ ts |-> t1, kind |-> "ok" ]

SetParticles(t, myframe, nat) ==
    IF AtomsNow(myframe) # nat
    THEN [ ts |-> t, kind |-> "ValueError" ]
    ELSE [ ts   |-> SetImagesVelocities(SetPositions(t, myframe), myframe),
           kind |-> "ok" ]

(* The whole method, applied to a reader whose handle is open or closed,   *)
(* whose cursor is cur, Timestep t and reference count nat.  A closed      *)
(* handle makes the container lookup of line 107 raise the container's own *)
(* error before anything is assigned.                                      *)
_read_frame_cursor_on_success(isopen, cur, t, nat, frame) ==
    IF ~isopen
    THEN [ cursor |-> cur, ts |-> t, kind |-> "ClosedFile", info |-> <<>> ]
    ELSE IF ~InRange(frame)
    THEN [ cursor |-> cur, ts |-> t, kind |-> RaisedWhenOutOfRange,
           info |-> <<>> ]
    ELSE LET myframe == GetItem(frame)
             t1 == SetFrame(t, frame, myframe)
             t2 == DecodeBox(SetBox(t1, myframe))
             r  == SetParticles(t2, myframe, nat)
         IN  [ cursor |-> IF r.kind = "ok" THEN SetCursor(cur, frame) ELSE cur,
               ts     |-> r.ts,
               kind   |-> r.kind,
               info   |-> IF r.kind = "ValueError"
                          THEN MismatchInfo(frame, myframe, nat)
                          ELSE <<>> ]

_read_frame_cursor_before_lookup(isopen, cur, t, nat, frame) ==
    IF ~isopen
    THEN [ cursor |-> cur, ts |-> t, kind |-> "ClosedFile", info |-> <<>> ]
    ELSE IF ~InRange(frame)
    THEN [ cursor |-> SetCursor(cur, frame), ts |-> t,
           kind |-> RaisedWhenOutOfRange, info |-> <<>> ]
    ELSE LET myframe == GetItem(frame)
             t1 == SetFrame(t, frame, myframe)
             t2 == DecodeBox(SetBox(t1, myframe))
             r  == SetParticles(t2, myframe, nat)
         IN  [ cursor |-> SetCursor(cur, frame),
               ts     |-> r.ts,
               kind   |-> r.kind,
               info   |-> IF r.kind = "ValueError"
                          THEN MismatchInfo(frame, myframe, nat)
                          ELSE <<>> ]

_read_frame_all_or_nothing(isopen, cur, t, nat, frame) ==
    IF ~isopen
    THEN [ cursor |-> cur, ts |-> t, kind |-> "ClosedFile", info |-> <<>> ]
    ELSE IF ~InRange(frame)
    THEN [ cursor |-> cur, ts |-> t, kind |-> RaisedWhenOutOfRange,
           info |-> <<>> ]
    ELSE LET myframe == GetItem(frame)
             t1 == SetFrame(t, frame, myframe)
             t2 == DecodeBox(SetBox(t1, myframe))
             r  == SetParticles(t2, myframe, nat)
         IN  IF r.kind = "ok"
             THEN [ cursor |-> SetCursor(cur, frame), ts |-> r.ts,
                    kind |-> "ok", info |-> <<>> ]
             ELSE [ cursor |-> cur, ts |-> t, kind |-> r.kind,
                    info |-> MismatchInfo(frame, myframe, nat) ]

_read_frame(isopen, cur, t, nat, frame) ==
    IF ~isopen
    THEN [ cursor |-> cur, ts |-> t, kind |-> "ClosedFile", info |-> <<>> ]
    ELSE IF ~InRange(frame)
    THEN [ cursor |-> cur, ts |-> t, kind |-> RaisedWhenOutOfRange,
           info |-> <<>> ]
    ELSE LET myframe == GetItem(frame)
             t1 == SetFrame(t, frame, myframe)
             t2 == DecodeBox(SetBox(t1, myframe))
             r  == SetParticles(t2, myframe, nat)
         IN  [ cursor |-> SetCursor(cur, frame),
               ts     |-> r.ts,
               kind   |-> r.kind,
               info   |-> IF r.kind = "ValueError"
                          THEN MismatchInfo(frame, myframe, nat)
                          ELSE <<>> ]

(* GSDReader._read_next_timestep: the index handed to _read_frame. *)
NextIndex_same(cur) == cur

NextIndex_skip(cur) == cur + 2

NextIndex(cur) == cur + 1

(* self._Timestep(self.n_atoms): frame -1, zeroed positions and unit cell, *)
(* no step, tilt factors, velocities or images yet.                        *)
NewTimestep(nat) ==
    [ frame |-> -1, step |-> -1, dimensions |-> <<0, 0, 0, 0, 0, 0>>,
      tilt_factors |-> <<>>, positions |-> [k \in 1..nat |-> 0],
      velocities |-> <<>>, images |-> <<>> ]

(* open_trajectory: the cursor it leaves. *)
OpenCursor_keep(cur) == cur

OpenCursor(cur) == -1

(* The reference count after _reopen. *)
ReopenAtoms_reread(nat) == IF n_frames > 0 THEN disk[n_frames].N ELSE nat

ReopenAtoms(nat) == nat

(* __init__, lines 76-77: if os.name == 'nt': raise NotImplementedError *)
UnsupportedPlatform_sys_platform(os) == os = "win32"

UnsupportedPlatform(os) == os = "nt"

Init ==
    /\ os_name \in {"posix", "nt"}
    /\ disk \in Containers
    /\ phase = "new"
    /\ _file = "none"
    /\ leaked = 0
    /\ _frame = -1
    /\ n_atoms = -1
    /\ ts = NoTimestep
    /\ result = NoResult
    /\ run = NoRun
    /\ peer = NoReader

----------------------------------------------------------------------------
(* Operations. *)

IsOpen == _file = "open"

(* GSDReader.__init__ *)
Construct ==
    /\ phase = "new"
    /\ UNCHANGED <<os_name, disk, peer>>
    /\ IF UnsupportedPlatform(os_name)
       THEN /\ phase' = "failed"
            /\ result' = Outcome("__init__", 0, "NotImplementedError", <<>>)
            /\ run' = NoRun
            /\ UNCHANGED <<_file, leaked, _frame, n_atoms, ts>>
       ELSE /\ _file' = "open"
            /\ UNCHANGED leaked
            /\ IF n_frames = 0
               THEN \* self._file[0] raises IndexError, untranslated
                    /\ phase' = "failed"
                    /\ _frame' = OpenCursor(_frame)
                    /\ result' = Outcome("__init__", 0, "IndexError", <<>>)
                    /\ run' = NoRun
                    /\ UNCHANGED <<n_atoms, ts>>
               ELSE LET nat == GetItem(0).N
                        r   == _read_frame(TRUE, OpenCursor(_frame),
                                           NewTimestep(nat), nat,
                                           NextIndex(OpenCursor(_frame)))
                    IN  /\ n_atoms' = nat
                        /\ _frame' = r.cursor
                        /\ ts' = r.ts
                        /\ phase' = IF r.kind = "ok" THEN "ready" ELSE "failed"
                        /\ result' = Outcome("__init__", 0, r.kind, r.info)
                        /\ run' = IF r.kind = "ok"
                                  THEN [ active |-> TRUE,
                                         seq |-> << Physical(r.cursor) >>,
                                         calls |-> 0, ended |-> FALSE ]
                                  ELSE NoRun

(* GSDReader._read_frame(frame), called by the user *)
ReadFrame(frame) ==
    /\ phase = "ready"
    /\ LET r == _read_frame(IsOpen, _frame, ts, n_atoms, frame)
       IN  /\ _frame' = r.cursor
           /\ ts' = r.ts
           /\ result' = Outcome("_read_frame", frame, r.kind, r.info)
    /\ run' = NoRun
    /\ UNCHANGED <<os_name, disk, phase, _file, leaked, n_atoms, peer>>

(* GSDReader._read_next_timestep() *)
ReadNextFrame ==
    /\ phase = "ready"
    /\ LET r == _read_frame(IsOpen, _frame, ts, n_atoms, NextIndex(_frame))
       IN  /\ _frame' = r.cursor
           /\ ts' = r.ts
           /\ result' = Outcome("_read_next_timestep", 0, r.kind, r.info)
           /\ run' = IF run.active /\ ~run.ended /\ r.kind = "ok"
                     THEN [run EXCEPT !.seq = Append(@, Physical(r.cursor)),
                                      !.calls = @ + 1]
                     ELSE IF run.active /\ ~run.ended /\ r.kind = "IOError"
                     THEN [run EXCEPT !.calls = @ + 1, !.ended = TRUE]
                     ELSE NoRun
    /\ UNCHANGED <<os_name, disk, phase, _file, leaked, n_atoms, peer>>

(* GSDReader.open_trajectory(): self._file is rebound to a new handle; the *)
(* handle it held is not closed by the reader.  An open handle dropped     *)
(* this way stays open unless the runtime has already finalised the        *)
(* unreferenced object, which the reader does not control.                 *)
OpenTrajectory ==
    /\ phase = "ready"
    /\ \E finalised \in BOOLEAN :
          /\ (IsOpen /\ ~finalised) => leaked < MaxLeaked
          /\ leaked' = IF IsOpen /\ ~finalised THEN leaked + 1 ELSE leaked
    /\ _frame' = OpenCursor(_frame)
    /\ _file' = "open"
    /\ result' = Outcome("open_trajectory", 0, "ok", <<>>)
    /\ run' = NoRun
    /\ UNCHANGED <<os_name, disk, phase, n_atoms, ts, peer>>

(* GSDReader.close() *)
Close ==
    /\ phase = "ready"
    /\ _file' = "closed"
    /\ result' = Outcome("close", 0, "ok", <<>>)
    /\ run' = NoRun
    /\ UNCHANGED <<os_name, disk, phase, leaked, _frame, n_atoms, ts, peer>>

(* GSDReader._reopen(): close() then open_trajectory() *)
Reopen ==
    /\ phase = "ready"
    /\ _frame' = OpenCursor(_frame)
    /\ _file' = "open"
    /\ UNCHANGED leaked
    /\ n_atoms' = ReopenAtoms(n_atoms)
    /\ result' = Outcome("_reopen", 0, "ok", <<>>)
    /\ run' = NoRun
    /\ UNCHANGED <<os_name, disk, phase, ts, peer>>

(* The indices a caller tries: every index the container accepts, and the  *)
(* first one past each end of that range.                                  *)
Indices == (-(n_frames + 1)) .. n_frames

Next ==
    \/ Construct
    \/ \E frame \in Indices : ReadFrame(frame)
    \/ ReadNextFrame
    \/ OpenTrajectory
    \/ Close
    \/ Reopen

Spec == Init /\ [][Next]_vars

----------------------------------------------------------------------------
(* Two readers over the same file.  Every field the methods assign is an   *)
(* attribute of the instance (self._frame, self._file, self.n_atoms,       *)
(* self.ts) and gsd.hoomd.open returns a new handle on each call; the      *)
(* second instance runs the same methods on its own fields.                *)

(* self._frame = ... in one instance, seen from the other instance: the    *)
(* other's cursor stays what it was.                                       *)
CursorOfOtherInstance_class_attribute(assigned, theirs) == assigned

CursorOfOtherInstance(assigned, theirs) == theirs

(* The first reader's fields, unchanged but for what a step of the second  *)
(* reader leaves in its cursor.                                            *)
PeerStepLeaves(assigned) ==
    /\ _frame' = CursorOfOtherInstance(assigned, _frame)
    /\ UNCHANGED <<os_name, disk, phase, _file, leaked, n_atoms, ts, result,
                   run>>

(* GSDReader.__init__ of the second instance *)
PeerConstruct ==
    /\ peer.phase = "new"
    /\ IF UnsupportedPlatform(os_name)
       THEN /\ peer' = [peer EXCEPT
                          !.phase = "failed",
                          !.result = Outcome("__init__", 0,
                                             "NotImplementedError", <<>>)]
            /\ PeerStepLeaves(_frame)
       ELSE IF n_frames = 0
       THEN /\ peer' = [peer EXCEPT
                          !.phase = "failed",
                          !._file = "open",
                          !._frame = OpenCursor(@),
                          !.result = Outcome("__init__", 0, "IndexError", <<>>)]
            /\ PeerStepLeaves(OpenCursor(peer._frame))
       ELSE LET nat == GetItem(0).N
                r   == _read_frame(TRUE, OpenCursor(peer._frame),
                                   NewTimestep(nat), nat,
                                   NextIndex(OpenCursor(peer._frame)))
            IN  /\ peer' = [ phase   |-> IF r.kind = "ok" THEN "ready"
                                                          ELSE "failed",
                             _file   |-> "open",
                             leaked  |-> peer.leaked,
                             _frame  |-> r.cursor,
                             n_atoms |-> nat,
                             ts      |-> r.ts,
                             result  |-> Outcome("__init__", 0, r.kind, r.info) ]
                /\ PeerStepLeaves(r.cursor)

(* _read_frame(frame) of the second instance *)
PeerReadFrame(frame) ==
    /\ peer.phase = "ready"
    /\ LET r == _read_frame(peer._file = "open", peer._frame, peer.ts,
                            peer.n_atoms, frame)
       IN  /\ peer' = [peer EXCEPT
                         !._frame = r.cursor,
                         !.ts = r.ts,
                         !.result = Outcome("_read_frame", frame, r.kind, r.info)]
           /\ PeerStepLeaves(r.cursor)

(* _read_next_timestep() of the second instance *)
PeerReadNextFrame ==
    /\ peer.phase = "ready"
    /\ LET r == _read_frame(peer._file = "open", peer._frame, peer.ts,
                            peer.n_atoms, NextIndex(peer._frame))
       IN  /\ peer' = [peer EXCEPT
                         !._frame = r.cursor,
                         !.ts = r.ts,
                         !.result = Outcome("_read_next_timestep", 0,
                                            r.kind, r.info)]
           /\ PeerStepLeaves(r.cursor)

(* close() of the second instance *)
PeerClose ==
    /\ peer.phase = "ready"
    /\ peer' = [peer EXCEPT !._file = "closed",
                            !.result = Outcome("close", 0, "ok", <<>>)]
    /\ PeerStepLeaves(peer._frame)

(* _reopen() of the second instance *)
PeerReopen ==
    /\ peer.phase = "ready"
    /\ peer' = [peer EXCEPT !._frame = OpenCursor(@),
                            !._file = "open",
                            !.n_atoms = ReopenAtoms(@),
                            !.result = Outcome("_reopen", 0, "ok", <<>>)]
    /\ PeerStepLeaves(OpenCursor(peer._frame))

(* The containers two readers are opened over: those of at most            *)
(* MaxPairFrames frames whose first frame carries the triple TiltAt(12).   *)
PairContainers ==
    { d \in Containers :
        /\ Len(d) <= MaxPairFrames
        /\ Len(d) > 0 => SubSeq(d[1].box, 4, 6) = TiltAt(12) }

PairInit == Init /\ disk \in PairContainers

(* Construction, reads, close and reopen of either instance, in any order. *)
PairNext ==
    \/ Construct
    \/ \E frame \in Indices : ReadFrame(frame)
    \/ ReadNextFrame
    \/ Close
    \/ Reopen
    \/ PeerConstruct
    \/ \E frame \in Indices : PeerReadFrame(frame)
    \/ PeerReadNextFrame
    \/ PeerClose
    \/ PeerReopen

PairSpec == PairInit /\ [][PairNext]_vars

----------------------------------------------------------------------------
(* Properties. *)

Ready == phase = "ready"

(* Every frame of the container has the particle count of frame 0. *)
AllFramesReference == \A i \in 1..n_frames : disk[i].N = disk[1].N

(* The frame the container returns for index i. *)
FrameOf(i) == disk[Physical(i) + 1]

(* C1: on a container whose frames all have the reference particle count,  *)
(* the constructor decodes frame 0 and the k-th read_next_timestep call    *)
(* after it decodes frame k, for k = 1 .. n_frames-1, so the frames are    *)
(* visited once each in increasing order; call number n_frames fails with  *)
(* the end-of-data error (IOError).                                        *)
C1_SequentialIteration ==
    (run.active /\ AllFramesReference) =>
        /\ run.seq = [k \in 1..Len(run.seq) |-> k - 1]
        /\ _frame = Len(run.seq) - 1
        /\ IF run.ended
           THEN /\ run.calls = n_frames
                /\ Len(run.seq) = n_frames
                /\ result.kind = "IOError"
           ELSE /\ Len(run.seq) = run.calls + 1
                /\ run.calls < n_frames
                /\ result.kind = "ok"

C1_Witness ==
    /\ run.active /\ run.ended /\ AllFramesReference
    /\ n_frames >= 3
    /\ run.seq = [k \in 1..n_frames |-> k - 1]

(* C2: on an open reader, _read_frame(i) with 0 <= i < n_frames on a frame *)
(* that has the reference particle count succeeds, whatever the cursor     *)
(* was, and leaves ts.frame = i and the cursor at i.                       *)
C2_RandomAccess ==
    [][ \A i \in 0..(n_frames - 1) :
          (ReadFrame(i) /\ IsOpen /\ disk[i + 1].N = n_atoms) =>
              /\ result'.kind = "ok"
              /\ ts'.frame = i
              /\ _frame' = i ]_vars

C2_Witness ==
    /\ result.op = "_read_frame" /\ result.kind = "ok"
    /\ n_frames >= 3 /\ result.arg = 1
    /\ _frame = 1 /\ ts.frame = 1

(* C3: on an open reader, _read_frame(index) with index >= n_frames or     *)
(* index < -n_frames fails with the end-of-data error (IOError), and no    *)
(* _read_frame call ever surfaces the container's IndexError.              *)
C3_EndOfData ==
    (Ready /\ result.op \in {"_read_frame", "_read_next_timestep"}) =>
        /\ result.kind # "IndexError"
        /\ (result.op = "_read_frame" /\ IsOpen
              /\ (result.arg >= n_frames \/ result.arg < -n_frames))
           => result.kind = "IOError"

C3_Witness ==
    /\ Ready /\ IsOpen
    /\ result.op = "_read_frame" /\ result.arg = n_frames
    /\ result.kind = "IOError"

(* C4: on an open reader, _read_frame(index) of a frame the container      *)
(* holds fails with the topology error (ValueError) exactly when the       *)
(* frame's particle count n differs from n_atoms, and the error then       *)
(* carries (index, n, n_atoms).                                            *)
C4_TopologyMismatch ==
    (Ready /\ result.op = "_read_frame" /\ IsOpen /\ InRange(result.arg)) =>
        LET n == FrameOf(result.arg).N
        IN  IF n # n_atoms
            THEN /\ result.kind = "ValueError"
                 /\ result.info = <<result.arg, n, n_atoms>>
            ELSE result.kind # "ValueError"

C4_Witness ==
    /\ Ready /\ result.op = "_read_frame"
    /\ result.kind = "ValueError"
    /\ result.info = <<2, 1, 2>>

(* C5: a read that fails with the topology error leaves ts.positions,      *)
(* ts.velocities and ts.images exactly as they were before the call.       *)
C5_NoPartialParticles ==
    [][ result'.kind = "ValueError" =>
            /\ ts'.positions = ts.positions
            /\ ts'.velocities = ts.velocities
            /\ ts'.images = ts.images ]_vars

C5_Witness ==
    /\ Ready /\ result.kind = "ValueError"
    /\ ts.positions # FrameOf(ts.frame).position
    /\ ts.positions = disk[1].position
    /\ ts.velocities = disk[1].velocity
    /\ ts.images = disk[1].image

(* C6: once the reader is constructed, n_atoms is the particle count of    *)
(* frame 0 and no operation, successful or failed, changes it.             *)
C6_ReferenceCountFixed ==
    [][ Ready => (n_atoms = disk[1].N /\ n_atoms' = n_atoms) ]_vars

C6_Witness ==
    /\ Ready /\ result.op = "_reopen"
    /\ n_atoms = disk[1].N
    /\ disk[n_frames].N # n_atoms

(* C7: _reopen (and open_trajectory after close) leaves the cursor at -1   *)
(* whatever it was, and the read_next_timestep that follows decodes        *)
(* frame 0.                                                                *)
JustOpened(r) == r.op \in {"_reopen", "open_trajectory"}

C7_ReopenResetsCursor ==
    [][ /\ JustOpened(result') => _frame' = -1
        /\ (JustOpened(result) /\ ReadNextFrame) =>
              /\ result'.kind = "ok"
              /\ _frame' = 0
              /\ ts'.frame = 0
              /\ ts'.step = disk[1].step
              /\ ts'.positions = disk[1].position ]_vars

C7_Witness ==
    /\ Ready /\ result.op = "_reopen"
    /\ _frame = -1
    /\ n_frames >= 3 /\ ts.frame = n_frames - 1

(* C8: in every state of a constructed reader, ts.tilt_factors is the raw  *)
(* (xy, xz, yz) of the box descriptor of the frame last decoded, and is    *)
(* not the angles that now stand in ts.dimensions[3:6].                    *)
C8_RawTiltFactors ==
    Ready =>
        /\ ts.tilt_factors = SubSeq(FrameOf(ts.frame).box, 4, 6)
        /\ ts.tilt_factors # SubSeq(ts.dimensions, 4, 6)

C8_Witness ==
    /\ Ready /\ ts.frame = 1
    /\ ts.tilt_factors = << 0, Unit, Unit >>
    /\ ts.dimensions[6] = 90 * Unit

(* C9: after a frame read ts.dimensions[0:3] are the frame's edge lengths  *)
(* and ts.dimensions[3:6] is (alpha, beta, gamma): gamma from xy alone,    *)
(* beta from xz and yz, alpha from xy*xz + yz over both norms; tilt        *)
(* factors (1, 0, 0) give (90, 90, 45) degrees.                            *)
CosGamma(xy, xz, yz) == Quotient(xy, Unit * Unit + xy * xy)

CosBeta(xy, xz, yz) == Quotient(xz, Unit * Unit + xz * xz + yz * yz)

CosAlpha(xy, xz, yz) ==
    Quotient(xy * xz + yz * Unit,
             (Unit * Unit + xy * xy) * (Unit * Unit + xz * xz + yz * yz))

C9_AnglesOrder ==
    Ready =>
        LET box == FrameOf(ts.frame).box
            xy  == box[4]
            xz  == box[5]
            yz  == box[6]
        IN  /\ SubSeq(ts.dimensions, 1, 3) = SubSeq(box, 1, 3)
            /\ ts.dimensions[4] = ArcCosDegrees(CosAlpha(xy, xz, yz))
            /\ ts.dimensions[5] = ArcCosDegrees(CosBeta(xy, xz, yz))
            /\ ts.dimensions[6] = ArcCosDegrees(CosGamma(xy, xz, yz))
            /\ (<<xy, xz, yz>> = <<Unit, 0, 0>>) =>
                   SubSeq(ts.dimensions, 4, 6) = <<90 * Unit, 90 * Unit, 45 * Unit>>

C9_Witness ==
    /\ Ready
    /\ SubSeq(FrameOf(ts.frame).box, 4, 6) = <<Unit, 0, 0>>
    /\ ts.dimensions[6] = 45 * Unit
    /\ ts.dimensions[4] = 90 * Unit /\ ts.dimensions[5] = 90 * Unit

(* C10: a frame whose tilt factors are (0, 0, 0) is read with              *)
(* ts.dimensions[3:6] = (90, 90, 90) degrees.                              *)
C10_OrthogonalBox ==
    (Ready /\ SubSeq(FrameOf(ts.frame).box, 4, 6) = <<0, 0, 0>>) =>
        SubSeq(ts.dimensions, 4, 6) = <<90 * Unit, 90 * Unit, 90 * Unit>>

C10_Witness ==
    /\ Ready /\ ts.frame = 1
    /\ SubSeq(disk[2].box, 4, 6) = <<0, 0, 0>>
    /\ SubSeq(ts.dimensions, 4, 6) = <<90 * Unit, 90 * Unit, 90 * Unit>>

(* C11: a successful construction leaves the cursor and ts.frame at 0,     *)
(* n_atoms at frame 0's particle count, and step, box lengths, angles,     *)
(* tilt factors, positions, velocities and images all those of frame 0.    *)
C11_ConstructedAtFrameZero ==
    (result.op = "__init__" /\ result.kind = "ok") =>
        /\ Ready /\ IsOpen
        /\ _frame = 0
        /\ ts.frame = 0
        /\ n_atoms = disk[1].N
        /\ ts.step = disk[1].step
        /\ SubSeq(ts.dimensions, 1, 3) = SubSeq(disk[1].box, 1, 3)
        /\ ts.dimensions[4] =
               ArcCosDegrees(CosAlpha(disk[1].box[4], disk[1].box[5], disk[1].box[6]))
        /\ ts.dimensions[5] =
               ArcCosDegrees(CosBeta(disk[1].box[4], disk[1].box[5], disk[1].box[6]))
        /\ ts.dimensions[6] =
               ArcCosDegrees(CosGamma(disk[1].box[4], disk[1].box[5], disk[1].box[6]))
        /\ ts.tilt_factors = SubSeq(disk[1].box, 4, 6)
        /\ ts.positions = disk[1].position
        /\ ts.velocities = disk[1].velocity
        /\ ts.images = disk[1].image

C11_Witness ==
    /\ result.op = "__init__" /\ result.kind = "ok"
    /\ n_frames >= 2 /\ n_atoms = 2
    /\ Len(ts.positions) = 2 /\ ts.positions = disk[1].position

(* C12: on a platform where os.name is 'nt' the constructor raises         *)
(* NotImplementedError and nothing else ever happens: no handle is opened, *)
(* no frame is read and no field of the reader is assigned.                *)
C12_UnsupportedPlatform ==
    os_name = "nt" =>
        /\ _file = "none" /\ leaked = 0
        /\ _frame = -1 /\ n_atoms = -1 /\ ts = NoTimestep
        /\ phase \in {"new", "failed"}
        /\ phase = "failed" =>
               (result.op = "__init__" /\ result.kind = "NotImplementedError")

C12_Witness ==
    /\ os_name = "nt" /\ phase = "failed"
    /\ result.kind = "NotImplementedError"
    /\ n_frames >= 1 /\ _file = "none"

(* A step is told by the operation its outcome names; for a read, the      *)
(* index handed to _read_frame is the argument, or the successor of the    *)
(* cursor for _read_next_timestep.                                         *)
StepIsRead == result'.op \in {"_read_frame", "_read_next_timestep"}

StepIsOpen == result'.op \in {"open_trajectory", "_reopen"}

StepIsClose == result'.op = "close"

StepIndex == IF result'.op = "_read_frame" THEN result'.arg ELSE _frame + 1

(* C14: the cursor is the index of the last successfully decoded frame     *)
(* since the most recent open, or -1: a successful read sets it to the     *)
(* index read, an open sets it to -1, and close and every failed read      *)
(* (end of data or topology mismatch) leave it unchanged.  Stated for the  *)
(* indices counted from the start of the container.                        *)
C14_CursorLastDecoded ==
    [][ /\ (StepIsRead /\ StepIndex >= 0) =>
              _frame' = IF result'.kind = "ok" THEN StepIndex ELSE _frame
        /\ StepIsOpen => _frame' = -1
        /\ StepIsClose => _frame' = _frame ]_vars

(* C14 as amended: the cursor is the index handed to the last read whose   *)
(* container lookup succeeded since the most recent open, or -1: a read    *)
(* that succeeds or fails with the topology error sets it to the index     *)
(* read, an open sets it to -1, and close and a read that fails with the   *)
(* end-of-data error leave it unchanged.                                   *)
C14_CursorLastLookedUp ==
    [][ /\ StepIsRead =>
              _frame' = IF result'.kind \in {"ok", "ValueError"}
                        THEN StepIndex ELSE _frame
        /\ StepIsOpen => _frame' = -1
        /\ StepIsClose => _frame' = _frame ]_vars

C14_Witness ==
    /\ Ready /\ result.kind = "ValueError"
    /\ result.op = "_read_frame" /\ result.arg = 2
    /\ _frame = 2
    /\ ts.positions = disk[1].position

(* C15: of the handles this reader has opened, at most one is open.        *)
OpenHandles == (IF IsOpen THEN 1 ELSE 0) + leaked

C15_OneHandle == OpenHandles <= 1

(* C16: in every state, _read_next_timestep() does what _read_frame with   *)
(* the index _frame + 1 does there: the same outcome (success, end of      *)
(* data, or topology mismatch with the same arguments), the same cursor    *)
(* and the same Timestep.                                                  *)
C16_NextIsReadOfSuccessor ==
    [][ ReadNextFrame =>
          \E f \in Indices :
              /\ f = _frame + 1
              /\ LET r == _read_frame(IsOpen, _frame, ts, n_atoms, f)
                 IN  /\ result'.kind = r.kind
                     /\ result'.info = r.info
                     /\ _frame' = r.cursor
                     /\ ts' = r.ts
                     /\ n_atoms' = n_atoms ]_vars

C16_Witness ==
    /\ Ready /\ IsOpen
    /\ result.op = "_read_next_timestep" /\ result.kind = "IOError"
    /\ _frame = n_frames - 1 /\ n_frames >= 2
    /\ run.active /\ run.ended

(* C17: after a successful read of index i the Timestep is determined by   *)
(* frame i alone: ts.frame = i = cursor, and step, box lengths, angles,    *)
(* tilt factors, positions, velocities and images are all those of the     *)
(* frame the container holds at i, whatever was read or failed before.     *)
DecodedFrame(i) ==
    LET f == FrameOf(i)
    IN  [ frame        |-> i,
          step         |-> f.step,
          dimensions   |-> << f.box[1], f.box[2], f.box[3],
                              ArcCosDegrees(CosAlpha(f.box[4], f.box[5], f.box[6])),
                              ArcCosDegrees(CosBeta(f.box[4], f.box[5], f.box[6])),
                              ArcCosDegrees(CosGamma(f.box[4], f.box[5], f.box[6])) >>,
          tilt_factors |-> << f.box[4], f.box[5], f.box[6] >>,
          positions    |-> f.position,
          velocities   |-> f.velocity,
          images       |-> f.image ]

C17_StateOfFrameAlone ==
    (Ready /\ result.kind = "ok"
       /\ result.op \in {"_read_frame", "_read_next_timestep"}) =>
        /\ result.op = "_read_frame" => ts.frame = result.arg
        /\ _frame = ts.frame
        /\ ts = DecodedFrame(ts.frame)

C17_Witness ==
    /\ Ready /\ result.op = "_read_frame" /\ result.kind = "ok"
    /\ result.arg = 2 /\ _frame = 2
    /\ ts = DecodedFrame(2)
    /\ disk[2].N # n_atoms

(* C18: a read that fails with the end-of-data error leaves the cursor,    *)
(* n_atoms and the whole Timestep as they were; after such a failure of    *)
(* _read_next_timestep the next _read_next_timestep fails the same way,    *)
(* while _read_frame(0) and _reopen followed by a read still work.         *)
C18_EndOfDataChangesNothing ==
    [][ /\ (StepIsRead /\ result'.kind = "IOError") =>
              /\ _frame' = _frame
              /\ n_atoms' = n_atoms
              /\ ts' = ts
        /\ (result.op = "_read_next_timestep" /\ result.kind = "IOError") =>
              /\ ReadNextFrame => result'.kind = "IOError"
              /\ ReadFrame(0) => (result'.kind = "ok" /\ _frame' = 0)
              /\ Reopen => (_frame' = -1 /\ _file' = "open") ]_vars

C18_Witness ==
    /\ Ready /\ IsOpen
    /\ result.op = "_read_next_timestep" /\ result.kind = "IOError"
    /\ ~run.active
    /\ _frame = n_frames - 1 /\ ts = DecodedFrame(n_frames - 1)

(* C19: a read of index i that fails with the topology error leaves the    *)
(* cursor at i and ts.frame, step, box lengths, angles and tilt factors    *)
(* those of frame i, with positions, velocities and images unchanged; the  *)
(* _read_next_timestep that follows reads index i + 1, not i.              *)
C19_MismatchAdvances ==
    [][ /\ (StepIsRead /\ result'.kind = "ValueError") =>
              LET i == StepIndex
              IN  /\ _frame' = i
                  /\ ts'.frame = i
                  /\ ts'.step = DecodedFrame(i).step
                  /\ ts'.dimensions = DecodedFrame(i).dimensions
                  /\ ts'.tilt_factors = DecodedFrame(i).tilt_factors
                  /\ ts'.positions = ts.positions
                  /\ ts'.velocities = ts.velocities
                  /\ ts'.images = ts.images
        /\ (result.kind = "ValueError" /\ ReadNextFrame) =>
              LET i == result.info[1]
              IN  IF InRange(i + 1)
                  THEN /\ result'.kind \in {"ok", "ValueError"}
                       /\ _frame' = i + 1
                       /\ ts'.frame = i + 1
                       /\ ts'.step = DecodedFrame(i + 1).step
                  ELSE result'.kind = "IOError" ]_vars

C19_Witness ==
    /\ Ready /\ result.kind = "ValueError"
    /\ result.op = "_read_next_timestep"
    /\ _frame = 1 /\ ts.frame = 1
    /\ ts.step = disk[2].step
    /\ ts.positions = disk[1].position
    /\ n_frames >= 3

(* C13: with two readers over the same file, no step changes both: a step  *)
(* of one instance leaves the other's phase, handle, cursor, n_atoms,      *)
(* Timestep and last outcome untouched; and what each instance holds is    *)
(* what a reader running alone holds: n_atoms is frame 0's count, the      *)
(* header of ts is that of the frame at ts.frame, and after a successful   *)
(* read the whole ts is that frame's and the cursor is its index.          *)
Self ==
    [ phase |-> phase, _file |-> _file, leaked |-> leaked, _frame |-> _frame,
      n_atoms |-> n_atoms, ts |-> ts, result |-> result ]

AsAlone(rd) ==
    rd.phase = "ready" =>
        /\ rd.n_atoms = disk[1].N
        /\ rd.ts.frame = rd._frame \/ rd._frame = -1
        /\ rd.ts.step = DecodedFrame(rd.ts.frame).step
        /\ rd.ts.dimensions = DecodedFrame(rd.ts.frame).dimensions
        /\ rd.ts.tilt_factors = DecodedFrame(rd.ts.frame).tilt_factors
        /\ rd.result.kind = "ok" /\ rd.result.op \in {"__init__", "_read_frame",
                                                     "_read_next_timestep"}
             => (rd.ts = DecodedFrame(rd.ts.frame) /\ rd._frame = rd.ts.frame)
        /\ rd.result.kind = "ValueError"
             => rd.result.info = << rd._frame, FrameOf(rd._frame).N, rd.n_atoms >>

C13_InstancesIndependent ==
    /\ [](AsAlone(Self) /\ AsAlone(peer))
    /\ [][ (peer' = peer) \/ (Self' = Self) ]_vars

C13_Witness ==
    /\ Ready /\ peer.phase = "ready"
    /\ _file = "closed" /\ peer._file = "open"
    /\ _frame = 0 /\ ts = DecodedFrame(0)
    /\ peer._frame = 1 /\ peer.result.kind = "ValueError"
    /\ peer.ts.positions = disk[1].position

====
